---- MODULE Spec2Model ----
(***************************************************************************)
(* Model of the Rialcom tariff parser: src/main.py (main) and              *)
(* src/app/parser_rialcom.py (ParserRialcom, DataRialcom).                 *)
(*                                                                         *)
(* A text is a sequence of one-character strings.  Cyrillic literals of    *)
(* the source are transliterated to ASCII letter by letter, keeping case:  *)
(* "тариф" is t-a-r-i-f, "Интернет" is I-n-t-e-r-n-e-t.                    *)
(* A Python value that may be an int or a str is a tagged pair:            *)
(* <<"int", n>> or <<"str", text>>.                                        *)
(***************************************************************************)
EXTENDS Integers, Sequences, FiniteSets, TLC

(***************************************************************************)
(* Bounds of the model.                                                    *)
(***************************************************************************)
\* the longest page (number of <table> elements) that is explored
MaxTables == 2
\* the most process_data calls a client makes on one page
MaxCalls == 2

(***************************************************************************)
(* Text primitives: str.strip, str.split, int(str), re.search, ' '.join,   *)
(* str(int).                                                               *)
(***************************************************************************)
DigitChars == <<"0", "1", "2", "3", "4", "5", "6", "7", "8", "9">>

IsDigit(ch) == \E i \in 1..10 : DigitChars[i] = ch

DigitVal(ch) == (CHOOSE i \in 1..10 : DigitChars[i] = ch) - 1

IsSpace(ch) == ch = " "

RECURSIVE LStrip(_)
LStrip(s) == IF s # <<>> /\ IsSpace(Head(s)) THEN LStrip(Tail(s)) ELSE s

RECURSIVE RStrip(_)
RStrip(s) ==
    IF s # <<>> /\ IsSpace(s[Len(s)]) THEN RStrip(SubSeq(s, 1, Len(s) - 1)) ELSE s

\* str.strip()
Strip(s) == RStrip(LStrip(s))

\* the length of the longest prefix of s made of digits
RECURSIVE DigitRunLen(_)
DigitRunLen(s) ==
    IF s # <<>> /\ IsDigit(Head(s)) THEN 1 + DigitRunLen(Tail(s)) ELSE 0

\* re.search(r'\d+', s): the first maximal run of digits, <<>> when there is
\* none (the match object is None)
SearchDigits(s) ==
    LET pos == {i \in 1..Len(s) : IsDigit(s[i])}
    IN  IF pos = {} THEN <<>>
        ELSE LET first == CHOOSE i \in pos : \A j \in pos : i <= j
                 n == DigitRunLen(SubSeq(s, first, Len(s)))
             IN  SubSeq(s, first, first + n - 1)

\* the value of a non-empty digit string
RECURSIVE DigitsToInt(_)
DigitsToInt(ds) ==
    IF ds = <<>> THEN 0
    ELSE DigitsToInt(SubSeq(ds, 1, Len(ds) - 1)) * 10 + DigitVal(ds[Len(ds)])

\* int(s) succeeds: optional surrounding whitespace, optional sign, digits
IntOk(s) ==
    LET t == Strip(s)
        body == IF t # <<>> /\ Head(t) \in {"+", "-"} THEN Tail(t) ELSE t
    IN  body # <<>> /\ \A i \in 1..Len(body) : IsDigit(body[i])

\* int(s), for a text with IntOk(s)
IntOf(s) ==
    LET t == Strip(s)
    IN  IF Head(t) = "-" THEN 0 - DigitsToInt(Tail(t))
        ELSE IF Head(t) = "+" THEN DigitsToInt(Tail(t))
        ELSE DigitsToInt(t)

\* s.split(): the whitespace-delimited tokens
RECURSIVE Split(_)
Split(s) ==
    LET t == LStrip(s)
    IN  IF t = <<>> THEN <<>>
        ELSE LET sp == {i \in 1..Len(t) : IsSpace(t[i])}
                 stop == IF sp = {} THEN Len(t) + 1
                         ELSE CHOOSE i \in sp : \A j \in sp : i <= j
             IN  <<SubSeq(t, 1, stop - 1)>> \o Split(SubSeq(t, stop, Len(t)))

\* str(n) for n >= 0, as the f-string formats an int
RECURSIVE IntToText(_)
IntToText(n) ==
    IF n < 10 THEN <<DigitChars[n + 1]>>
    ELSE IntToText(n \div 10) \o <<DigitChars[(n % 10) + 1]>>

\* re.search(pat, s) is not None, for a pattern that is a literal word
Contains(s, pat) ==
    \E i \in 1..(Len(s) - Len(pat) + 1) : SubSeq(s, i, i + Len(pat) - 1) = pat

\* ' '.join(cells)
RECURSIVE Join(_)
Join(cells) ==
    IF cells = <<>> THEN <<>>
    ELSE IF Len(cells) = 1 THEN cells[1]
    ELSE cells[1] \o <<" ">> \o Join(Tail(cells))

\* whether text s, read from its first character, matches \s*\(\d+[\s\S]*\)
BundleTail(s) ==
    LET t == LStrip(s)
    IN  /\ Len(t) >= 3
        /\ t[1] = "("
        /\ IsDigit(t[2])
        /\ \E j \in 3..Len(t) : t[j] = ")"

\* re.search(r"(?P<name>[\s\S]*?)\s*\((?P<num>\d+)[\s\S]*\)", s): the lazy
\* name group ends at the first position from which the rest matches
BundleSplit(s) ==
    LET cut == {n \in 0..Len(s) : BundleTail(SubSeq(s, n + 1, Len(s)))}
    IN  IF cut = {} THEN [ok |-> FALSE, name |-> <<>>, num |-> 0]
        ELSE LET n == CHOOSE i \in cut : \A j \in cut : i <= j
                 rest == LStrip(SubSeq(s, n + 1, Len(s)))
             IN  [ok |-> TRUE,
                  name |-> SubSeq(s, 1, n),
                  num |-> DigitsToInt(SearchDigits(rest))]

(***************************************************************************)
(* String literals of the source.                                          *)
(***************************************************************************)
\* the pattern "тариф" of re.search (line 131)
TARIF == <<"t", "a", "r", "i", "f">>

\* the pattern "Интернет" of re.search (line 135)
INTERNET == <<"I", "n", "t", "e", "r", "n", "e", "t">>

\* the string 'null' appended for a Schema A row (line 154)
NULL == <<"n", "u", "l", "l">>

\* the literal " + РиалКом Интернет " of the f-strings (lines 199, 201)
CONNECTOR == <<" ", "+", " ", "R", "i", "a", "l", "K", "o", "m", " ", "I", "n", "t", "e", "r", "n", "e", "t", " ">>

\* the literal " + TB" (line 201)
SUFFIX_TB == <<" ", "+", " ", "T", "B">>

\* the literal " + TB_ч" (line 199)
SUFFIX_TB_CH == <<" ", "+", " ", "T", "B", "_", "c", "h">>

\* the column headers of save_data (line 84), transliterated
HEADERS == <<"Nazvanie tarifa", "Kolichestvo kanalov", "Skorost dostupa", "Abonentskaya plata">>

\* the default file name of save_data (line 76)
DEFAULT_NAME == "example"

(***************************************************************************)
(* The pages that are explored.  A table is the sequence of its <tr> rows; *)
(* a row is [th |-> texts of its <th> cells, td |-> texts of its <td>      *)
(* cells].                                                                 *)
(***************************************************************************)
thTarif == <<"N", " ", "t", "a", "r", "i", "f", "a">>
thPlata == <<"P", "l", "a", "t", "a">>
thBoth == <<"t", "a", "r", "i", "f", " ", "I", "n", "t", "e", "r", "n", "e", "t">>
thCaps == <<"T", "A", "R", "I", "F">>
thLower == <<"i", "n", "t", "e", "r", "n", "e", "t">>
thKanal == <<"K", "a", "n", "a", "l">>
thTV == <<"T", "V">>
thInternet == <<"I", "n", "t", "e", "r", "n", "e", "t">>
thInt50 == <<"I", "n", "t", "e", "r", "n", "e", "t", " ", "5", "0">>
thInt100 == <<" ", "I", "n", "t", "e", "r", "n", "e", "t", " ", "1", "0", "0", " ", "M">>
th050 == <<"0", "5", "0", " ", "M">>
thMax == <<"M", "a", "x">>
tdStart == <<"S", "t", "a", "r", "t">>
tdTurbo == <<" ", "T", "u", "r", "b", "o", " ">>
tdGiga == <<"G", "i", "g", "a">>
td350rub == <<"3", "5", "0", " ", "r", "u", "b">>
td900 == <<" ", "9", "0", "0">>
td1200rub == <<"1", "2", "0", "0", " ", "r", "u", "b">>
tdUtochnit == <<"u", "t", "o", "c", "h", "n", "i", "t">>
tdBlank == <<" ">>
tdDash == <<"-">>
tdDo30 == <<"d", "o", " ", "3", "0", " ", "M">>
td1500 == <<"1", "5", "0", "0", " ", "K">>
tdDo100000 == <<"d", "o", " ", "1", "0", "0", "0", "0", "0", " ", "K">>
tdBez == <<"b", "e", "z">>
tdK == <<"K", " ", "(", "1", "2", "0", " ", "k", ")">>
tdKbare == <<"K">>
tdHD == <<"B", " ", "(", "H", "D", ")", " ", "(", "5", "0", " ", "k", ")">>
tdHDbare == <<" ", "B", " ", "(", "H", "D", ")", " ">>
td600 == <<"6", "0", "0">>
td800 == <<" ", "8", "0", "0", " ">>
td650 == <<"6", "5", "0">>
td850 == <<"8", "5", "0">>
tdK99 == <<"K", " ", " ", "(", "9", "9", ")">>

Row(th, td) == [th |-> th, td |-> td]

HeadA == Row(<<thTarif, thPlata>>, <<>>)
HeadB2 == Row(<<thTV, thInt50, thInt100>>, <<>>)
HeadB1 == Row(<<thInternet, th050>>, <<>>)
HeadB0 == Row(<<thInternet>>, <<>>)
HeadBMax == Row(<<thInternet, thMax>>, <<>>)
HeadB2Max == Row(<<thTV, thInt50, thMax>>, <<>>)

RowStart == Row(<<>>, <<tdStart, td350rub, tdDash, tdDo30>>)
RowTurbo == Row(<<>>, <<tdTurbo, td900, tdDash, td1500>>)
RowGiga == Row(<<>>, <<tdGiga, td1200rub, tdDash, tdDo100000>>)
RowNoSpeed == Row(<<>>, <<tdStart, td350rub, tdDash, tdBez>>)
RowBadPay == Row(<<>>, <<tdStart, tdUtochnit, tdDash, td1500>>)
RowBlankPay == Row(<<>>, <<tdStart, tdBlank, tdDash, td1500>>)
RowShort == Row(<<>>, <<tdStart, td350rub>>)
RowNoTd == Row(<<thKanal>>, <<>>)
RowK == Row(<<>>, <<tdK, td600, td800>>)
RowKbare == Row(<<>>, <<tdKbare, td650, td850>>)
RowHD == Row(<<>>, <<tdHD, td600, td800>>)
RowHDbare == Row(<<>>, <<tdHDbare, td650, td850>>)
RowKBadPay == Row(<<>>, <<tdK, td600, tdUtochnit>>)
RowKShort == Row(<<>>, <<tdK, td600>>)
RowK99 == Row(<<>>, <<tdK99, td650>>)

\* the tables a page is made of
Catalog ==
    << <<HeadA, RowStart>>,
       <<HeadA, RowTurbo, RowGiga>>,
       <<Row(<<thBoth>>, <<>>), RowTurbo>>,
       <<HeadA, RowGiga, RowNoSpeed>>,
       <<HeadA, RowBadPay>>,
       <<HeadA, RowBlankPay>>,
       <<HeadA, RowShort>>,
       <<HeadA, RowNoTd>>,
       <<HeadA>>,
       <<HeadB2, RowK>>,
       <<HeadB2, RowKbare>>,
       <<HeadB2, RowHD, RowHDbare>>,
       <<HeadB1, RowK>>,
       <<HeadB1, RowK99, RowKbare>>,
       <<HeadB2, RowKBadPay>>,
       <<HeadB2, RowKShort>>,
       <<HeadBMax, RowK>>,
       <<HeadB2Max, RowK>>,
       <<HeadBMax>>,
       <<HeadB0, RowK>>,
       <<HeadB2, RowNoTd>>,
       <<Row(<<thKanal>>, <<>>), RowK>>,
       <<Row(<<thCaps, thLower>>, <<>>), RowStart>>,
       <<RowStart, RowTurbo>>,
       <<>> >>

\* a page: the sequence of the catalog numbers of its tables
Pages == UNION {[1..n -> 1..Len(Catalog)] : n \in 0..MaxTables}

\* the HTTP status codes a fetch may answer
Statuses == {200, 204, 404, 503}

(***************************************************************************)
(* State.                                                                  *)
(***************************************************************************)
VARIABLES
    pc,         \* where main (or the client of the classes) stands
    status,     \* response.status_code of the last fetch, 0 before any
    fetches,    \* the number of requests.get calls made
    printed,    \* what main printed
    data,       \* self.data: the parsed page
    file,       \* the spreadsheets written by to_excel, none at first
    names, channels, speeds, payments,      \* the four lists of DataRialcom
    count_tariff_channel,                   \* the channel registry (a dict)
    phase,      \* where DataRialcom.process_data stands
    ti, ri, ci, \* the table, the row and the header column being visited
    tariff, channel, is_tariff,   \* the locals __process_tariff_TV passes on
    raised,     \* the exception that ended process_data
    results,    \* what the process_data calls returned, in call order
    calls,      \* process_data calls made on the current DataRialcom
    cur,        \* history: the data row visited last, the length of names and
                \* the registry when its visit began, whether it completed
    firstSeen   \* history: the labels parsed by the bundle pattern, each with
                \* the channel count read from it and the table it stood in

vars == <<pc, status, fetches, printed, data, file, names, channels, speeds,
          payments, count_tariff_channel, phase, ti, ri, ci, tariff, channel,
          is_tariff, raised, results, calls, cur, firstSeen>>

mainVars == <<pc, status, fetches, printed, data, file>>
listVars == <<names, channels, speeds, payments>>
localVars == <<tariff, channel, is_tariff>>

NoExc == [type |-> "none", line |-> 0]
NoRow == [t |-> 0, r |-> 0, base |-> 0, registry |-> <<>>, done |-> FALSE]

\* tables = self.data.find_all('table')
Tables == [i \in 1..Len(data) |-> Catalog[data[i]]]

\* the four lists as one value
Lists == [names |-> names, channels |-> channels, speeds |-> speeds,
          payments |-> payments]

Outcome(L, type, line) == [lists |-> L, exc |-> [type |-> type, line |-> line]]

(***************************************************************************)
(* The steps of the interpreter as functions of their inputs.              *)
(***************************************************************************)
\* united_heads and the if/elif/else of process_data: "A" is format 1
\* (__process_tariff), "B" is format 2 (__process_tariff_TV)
Classify(heads) ==
    LET united_heads == Join(heads)
    IN  IF Contains(united_heads, TARIF) THEN "A"
        ELSE IF Contains(united_heads, INTERNET) THEN "B"
        ELSE "skip"

\* variants: rounding to the nearest, and no scaling at all
KbitToMbitRounded(n) == (n + 500) \div 1000

KbitToMbitUnscaled(n) == n

\* int(n / 1000) of a non-negative int
KbitToMbit(n) == n \div 1000

\* variant: a row that cannot be read is passed over
ProcessTariffRowSkip(columns, L) == Outcome(L, "none", 0)

\* the body of the loop of __process_tariff for one row, from lists L
ProcessTariffRow(columns, L) ==
    IF Len(columns) < 1 THEN Outcome(L, "IndexError", 153)
    ELSE
    LET L1 == [L EXCEPT !.names = Append(@, Strip(columns[1])),
                        !.channels = Append(@, <<"str", NULL>>)]
    IN  IF Len(columns) < 4 THEN Outcome(L1, "IndexError", 155)
        ELSE
        LET m == SearchDigits(Strip(columns[4]))
        IN  IF m = <<>> THEN Outcome(L1, "AttributeError", 155)
            ELSE
            LET L2 == [L1 EXCEPT !.speeds = Append(@, KbitToMbit(DigitsToInt(m)))]
                tokens == Split(Strip(columns[2]))
            IN  IF tokens = <<>> THEN Outcome(L2, "IndexError", 156)
                ELSE IF ~IntOk(tokens[1]) THEN Outcome(L2, "ValueError", 156)
                ELSE Outcome([L2 EXCEPT !.payments = Append(@, IntOf(tokens[1]))],
                             "none", 0)

\* tariff in self.count_tariff_channel.keys()
IsKnown(label, registry) == label \in DOMAIN registry

\* variant: the registry keyed by the whole label
RegistryKeyFull(name, label) == label

\* the key under which line 179 stores the channel count
RegistryKey(name, label) == name

\* self.count_tariff_channel[key] = num
Store(registry, key, num) ==
    [k \in DOMAIN registry \cup {key} |-> IF k = key THEN num ELSE registry[k]]

\* variant: the two suffixes exchanged
BundleNameSwapped(label, speed, known) ==
    label \o CONNECTOR \o IntToText(speed)
          \o (IF known THEN SUFFIX_TB ELSE SUFFIX_TB_CH)

\* the name appended by __wrtite_tariff_TV
BundleName(label, speed, known) ==
    label \o CONNECTOR \o IntToText(speed)
          \o (IF known THEN SUFFIX_TB_CH ELSE SUFFIX_TB)

\* variant: channel and speed appended to each other's list
WriteTariffTVColumnSwapped(heads, columns, chan, known, label, i, L) ==
    LET m == SearchDigits(Strip(heads[i]))
    IN  IF m = <<>> THEN Outcome(L, "AttributeError", 197)
        ELSE
        LET speed == DigitsToInt(m)
            L3 == [L EXCEPT !.names = Append(@, BundleName(label, speed, known)),
                            !.channels = Append(@, <<"int", speed>>),
                            !.speeds = Append(@, chan)]
        IN  IF Len(columns) < i THEN Outcome(L3, "IndexError", 204)
            ELSE IF ~IntOk(Strip(columns[i])) THEN Outcome(L3, "ValueError", 204)
            ELSE Outcome([L3 EXCEPT !.payments = Append(@, IntOf(Strip(columns[i])))],
                         "none", 0)

\* the body of the loop of __wrtite_tariff_TV for header column i (counted
\* from 1, so Python's heads[i] is heads[i + 1] here), from lists L
WriteTariffTVColumn(heads, columns, chan, known, label, i, L) ==
    LET m == SearchDigits(Strip(heads[i]))
    IN  IF m = <<>> THEN Outcome(L, "AttributeError", 197)
        ELSE
        LET speed == DigitsToInt(m)
            L3 == [L EXCEPT !.names = Append(@, BundleName(label, speed, known)),
                            !.channels = Append(@, <<"int", chan>>),
                            !.speeds = Append(@, speed)]
        IN  IF Len(columns) < i THEN Outcome(L3, "IndexError", 204)
            ELSE IF ~IntOk(Strip(columns[i])) THEN Outcome(L3, "ValueError", 204)
            ELSE Outcome([L3 EXCEPT !.payments = Append(@, IntOf(Strip(columns[i])))],
                         "none", 0)

\* pd.DataFrame(_dict) accepts columns of one length only
FrameOk(cols) == \A i \in 1..Len(cols) : Len(cols[i]) = Len(cols[1])

\* variant: any 2xx status taken for success
MainOkAny2xx(result) == result \div 100 = 2

\* result == 200 in main
MainOk(result) == result = 200

(***************************************************************************)
(* Initial states.                                                         *)
(***************************************************************************)
\* ParserRialcom.__init__: the fields of a new instance
FieldsInit ==
    /\ names = <<>>
    /\ channels = <<>>
    /\ speeds = <<>>
    /\ payments = <<>>
    /\ count_tariff_channel = <<>>

\* the same, as the effect of constructing a DataRialcom
Construct ==
    /\ names' = <<>>
    /\ channels' = <<>>
    /\ speeds' = <<>>
    /\ payments' = <<>>
    /\ count_tariff_channel' = <<>>
    /\ cur' = NoRow
    /\ firstSeen' = <<>>

IdleInit ==
    /\ FieldsInit
    /\ phase = "idle"
    /\ ti = 0 /\ ri = 0 /\ ci = 0
    /\ tariff = <<>> /\ channel = 0 /\ is_tariff = FALSE
    /\ raised = NoExc
    /\ results = <<>>
    /\ calls = 0
    /\ cur = NoRow
    /\ firstSeen = <<>>
    /\ status = 0 /\ fetches = 0 /\ printed = <<>> /\ file = <<>>

\* main is about to run
Init ==
    /\ IdleInit
    /\ pc = "main"
    /\ data = <<>>

\* a client holds a DataRialcom built over a loaded page
InitCalls ==
    /\ IdleInit
    /\ pc = "client"
    /\ data \in Pages

(***************************************************************************)
(* DataRialcom.process_data                                                *)
(***************************************************************************)
Raise(L, exc) ==
    /\ names' = L.names /\ channels' = L.channels
    /\ speeds' = L.speeds /\ payments' = L.payments
    /\ phase' = "raised"
    /\ raised' = exc
    /\ UNCHANGED <<ti, ri, ci>>

\* leave row ri of table ti: on to the next row, or to the next table
LeaveRow(kind) ==
    /\ ci' = 0
    /\ IF ri + 1 <= Len(Tables[ti])
       THEN phase' = kind /\ ri' = ri + 1 /\ ti' = ti
       ELSE phase' = "table" /\ ri' = 0 /\ ti' = ti + 1

\* one iteration of "for table in tables", up to the dispatch
process_data_table ==
    /\ phase = "table"
    /\ ti <= Len(Tables)
    /\ LET rows == Tables[ti]
       IN  IF rows = <<>>
           THEN Raise(Lists, [type |-> "IndexError", line |-> 127])
           ELSE LET kind == Classify(rows[1].th)
                IN  /\ UNCHANGED <<listVars, raised, ci>>
                    /\ IF kind # "skip" /\ Len(rows) >= 2
                       THEN /\ phase' = (IF kind = "A" THEN "rowA" ELSE "rowB")
                            /\ ri' = 2 /\ ti' = ti
                       ELSE /\ phase' = "table"
                            /\ ri' = 0 /\ ti' = ti + 1
    /\ UNCHANGED <<mainVars, count_tariff_channel, localVars, results, calls,
                   cur, firstSeen>>

\* one iteration of "for row in rows[1:]" of __process_tariff
process_tariff ==
    /\ phase = "rowA"
    /\ LET out == ProcessTariffRow(Tables[ti][ri].td, Lists)
       IN  /\ cur' = [t |-> ti, r |-> ri, base |-> Len(names),
                      registry |-> count_tariff_channel,
                      done |-> out.exc.type = "none"]
           /\ IF out.exc.type # "none"
              THEN Raise(out.lists, out.exc)
              ELSE /\ names' = out.lists.names
                   /\ channels' = out.lists.channels
                   /\ speeds' = out.lists.speeds
                   /\ payments' = out.lists.payments
                   /\ LeaveRow("rowA")
                   /\ UNCHANGED raised
    /\ UNCHANGED <<mainVars, count_tariff_channel, localVars, results, calls,
                   firstSeen>>

\* one iteration of "for row in rows[1:]" of __process_tariff_TV, up to the
\* call of __wrtite_tariff_TV
process_tariff_TV ==
    /\ phase = "rowB"
    /\ LET columns == Tables[ti][ri].td
           heads == Tables[ti][1].th
           label == Strip(columns[1])
           groups == BundleSplit(label)
           known == IsKnown(label, count_tariff_channel)
           fails == Len(columns) < 1 \/ (~known /\ ~groups.ok)
       IN  /\ cur' = [t |-> ti, r |-> ri, base |-> Len(names),
                      registry |-> count_tariff_channel,
                      done |-> ~fails /\ Len(heads) < 2]
           /\ IF Len(columns) < 1
              THEN /\ Raise(Lists, [type |-> "IndexError", line |-> 168])
                   /\ UNCHANGED <<count_tariff_channel, localVars, firstSeen>>
              ELSE IF ~known /\ ~groups.ok
              THEN /\ Raise(Lists, [type |-> "AttributeError", line |-> 178])
                   /\ tariff' = label
                   /\ is_tariff' = FALSE
                   /\ UNCHANGED <<count_tariff_channel, channel, firstSeen>>
              ELSE /\ tariff' = label
                   /\ is_tariff' = known
                   /\ IF known
                      THEN /\ channel' = count_tariff_channel[label]
                           /\ UNCHANGED <<count_tariff_channel, firstSeen>>
                      ELSE /\ channel' = groups.num
                           /\ count_tariff_channel' =
                                Store(count_tariff_channel,
                                      RegistryKey(groups.name, label), groups.num)
                           /\ firstSeen' = Append(firstSeen,
                                  [label |-> label, num |-> groups.num, t |-> ti])
                   /\ UNCHANGED <<listVars, raised>>
                   /\ IF Len(heads) >= 2
                      THEN phase' = "colB" /\ ci' = 2 /\ UNCHANGED <<ti, ri>>
                      ELSE LeaveRow("rowB")
    /\ UNCHANGED <<mainVars, results, calls>>

\* one iteration of "for i in range(1, len(heads))" of __wrtite_tariff_TV
wrtite_tariff_TV ==
    /\ phase = "colB"
    /\ LET heads == Tables[ti][1].th
           out == WriteTariffTVColumn(heads, Tables[ti][ri].td, channel,
                                      is_tariff, tariff, ci, Lists)
       IN  IF out.exc.type # "none"
           THEN Raise(out.lists, out.exc) /\ UNCHANGED cur
           ELSE /\ names' = out.lists.names
                /\ channels' = out.lists.channels
                /\ speeds' = out.lists.speeds
                /\ payments' = out.lists.payments
                /\ UNCHANGED raised
                /\ IF ci + 1 <= Len(heads)
                   THEN /\ ci' = ci + 1
                        /\ UNCHANGED <<phase, ti, ri, cur>>
                   ELSE /\ LeaveRow("rowB")
                        /\ cur' = [cur EXCEPT !.done = TRUE]
    /\ UNCHANGED <<mainVars, count_tariff_channel, localVars, results, calls,
                   firstSeen>>

\* return [self.names, self.channels, self.speeds, self.payments]
process_data_return ==
    /\ phase = "table"
    /\ ti = Len(Tables) + 1
    /\ phase' = "returned"
    /\ results' = Append(results, <<names, channels, speeds, payments>>)
    /\ UNCHANGED <<mainVars, listVars, count_tariff_channel, ti, ri, ci,
                   localVars, raised, calls, cur, firstSeen>>

Interpreter ==
    \/ process_data_table
    \/ process_tariff
    \/ process_tariff_TV
    \/ wrtite_tariff_TV
    \/ process_data_return

(***************************************************************************)
(* main, ParserRialcom.load_data, ParserRialcom.save_data                  *)
(***************************************************************************)
\* data_parser.load_data(): one GET, the page kept on status 200 only
main_load_data ==
    /\ pc = "main"
    /\ \E st \in Statuses :
          /\ status' = st
          /\ fetches' = fetches + 1
          /\ IF st = 200
             THEN \E p \in Pages : data' = p
             ELSE UNCHANGED data
    /\ pc' = "loaded"
    /\ UNCHANGED <<printed, file, listVars, count_tariff_channel, phase, ti, ri,
                   ci, localVars, raised, results, calls, cur, firstSeen>>

\* the else branch of main
main_print ==
    /\ pc = "loaded"
    /\ ~MainOk(status)
    /\ printed' = Append(printed, status)
    /\ pc' = "exit"
    /\ UNCHANGED <<status, fetches, data, file, listVars, count_tariff_channel,
                   phase, ti, ri, ci, localVars, raised, results, calls, cur,
                   firstSeen>>

\* save_data up to data = self.process_data(): ParserRialcom.process_data
\* builds a DataRialcom over self.data and calls its process_data
save_data_call ==
    /\ pc = "loaded"
    /\ MainOk(status)
    /\ pc' = "saving"
    /\ Construct
    /\ calls' = 1
    /\ phase' = "table"
    /\ ti' = 1 /\ ri' = 0 /\ ci' = 0
    /\ UNCHANGED <<status, fetches, printed, data, file, localVars, raised,
                   results>>

\* the rest of save_data: the frame and to_excel
save_data_write ==
    /\ pc = "saving"
    /\ phase = "returned"
    /\ LET cols == results[Len(results)]
       IN  IF FrameOk(cols)
           THEN /\ file' = <<[name |-> DEFAULT_NAME, headers |-> HEADERS,
                             columns |-> cols]>>
                /\ pc' = "exit"
           ELSE /\ file' = file
                /\ pc' = "crashed"
    /\ UNCHANGED <<status, fetches, printed, data, listVars,
                   count_tariff_channel, phase, ti, ri, ci, localVars, raised,
                   results, calls, cur, firstSeen>>

\* an exception of process_data leaves save_data and main
main_crash ==
    /\ pc = "saving"
    /\ phase = "raised"
    /\ pc' = "crashed"
    /\ UNCHANGED <<status, fetches, printed, data, file, listVars,
                   count_tariff_channel, phase, ti, ri, ci, localVars, raised,
                   results, calls, cur, firstSeen>>

Next ==
    \/ main_load_data
    \/ main_print
    \/ save_data_call
    \/ save_data_write
    \/ main_crash
    \/ Interpreter

Spec == Init /\ [][Next]_vars

(***************************************************************************)
(* A client that calls process_data more than once.                        *)
(***************************************************************************)
\* processRialcom.process_data() once more on the DataRialcom it holds
client_call ==
    /\ pc = "client"
    /\ phase \in {"idle", "returned"}
    /\ Len(results) < MaxCalls
    /\ calls' = calls + 1
    /\ phase' = "table"
    /\ ti' = 1 /\ ri' = 0 /\ ci' = 0
    /\ UNCHANGED <<mainVars, listVars, count_tariff_channel, localVars, raised,
                   results, cur, firstSeen>>

\* ParserRialcom.process_data(): a new DataRialcom for every call
client_process_data ==
    /\ pc = "client"
    /\ phase \in {"idle", "returned"}
    /\ Len(results) < MaxCalls
    /\ Construct
    /\ calls' = 1
    /\ phase' = "table"
    /\ ti' = 1 /\ ri' = 0 /\ ci' = 0
    /\ UNCHANGED <<mainVars, localVars, raised, results>>

NextCalls ==
    \/ client_call
    \/ client_process_data
    \/ Interpreter

SpecCalls == InitCalls /\ [][NextCalls]_vars

(***************************************************************************)
(* Vocabulary of the properties.                                           *)
(***************************************************************************)
\* the row visited last: its table's header cells, its data cells, its label
CurHeads == Tables[cur.t][1].th
CurCells == Tables[cur.t][cur.r].td
CurLabel == Strip(CurCells[1])
CurKind == IF cur.t = 0 THEN "none" ELSE Classify(CurHeads)

\* the j-th record of the four parallel lists
Record(j) == <<names[j], channels[j], speeds[j], payments[j]>>

SameLengths ==
    /\ Len(channels) = Len(names)
    /\ Len(speeds) = Len(names)
    /\ Len(payments) = Len(names)

EndsWith(s, suffix) ==
    /\ Len(s) >= Len(suffix)
    /\ SubSeq(s, Len(s) - Len(suffix) + 1, Len(s)) = suffix

\* the positions of s where a parenthesis opens on a digit and closes later
GroupStarts(s) ==
    {i \in 1..(Len(s) - 2) :
        /\ s[i] = "("
        /\ IsDigit(s[i + 1])
        /\ \E j \in (i + 2)..Len(s) : s[j] = ")"}

\* s contains a parenthesized group that starts with digits
HasGroup(s) == GroupStarts(s) # {}

\* the leading digit run inside the parentheses of s
ParenDigits(s) ==
    LET i == CHOOSE x \in GroupStarts(s) : \A y \in GroupStarts(s) : x <= y
    IN  DigitsToInt(SearchDigits(SubSeq(s, i, Len(s))))

\* the text of s before that parenthesis, without the blanks that end it
TextBeforeParen(s) ==
    LET i == CHOOSE x \in GroupStarts(s) : \A y \in GroupStarts(s) : x <= y
    IN  RStrip(SubSeq(s, 1, i - 1))

\* the first digit run of a text, as a number
DigitRun(s) == DigitsToInt(SearchDigits(s))

\* a Schema B data row has completed
BundleRowDone == cur.done /\ CurKind = "B"

\* a Schema A data row has completed
TariffRowDone == cur.done /\ CurKind = "A"

\* the label of the completed Schema B row was parsed by the bundle pattern
\* in an earlier table
SameLabelEarlier ==
    \E i \in 1..Len(firstSeen) :
        firstSeen[i].label = CurLabel /\ firstSeen[i].t < cur.t

\* the records the row visited last has appended so far
CurRecords == (cur.base + 1)..Len(names)

(***************************************************************************)
(* C1                                                                      *)
(***************************************************************************)
\* C1: names, channels, speeds and payments have equal length in every
\* state between two row extractions (after each table, each Schema A row,
\* each Schema B speed column) and in the state in which the call stops on
\* a malformed cell.
C1_EqualLengthsAlways == SameLengths

(***************************************************************************)
(* C2                                                                      *)
(***************************************************************************)
\* C2 as stated: a Schema B row whose exact label was processed as a
\* first-seen bundle in an earlier table is a repeat bundle: its records end
\* in " + TB_ch" and carry the channels value of the first occurrence.
C2_SameLabelIsRepeat ==
    (BundleRowDone /\ SameLabelEarlier) =>
        \A j \in CurRecords :
            /\ EndsWith(names[j], SUFFIX_TB_CH)
            /\ channels[j] = <<"int", ParenDigits(CurLabel)>>

\* the channel count of the most recent parsed label whose base name is s
LastCountFor(s) ==
    LET hits == {i \in 1..Len(firstSeen) :
                    TextBeforeParen(firstSeen[i].label) = s}
        last == CHOOSE i \in hits : \A j \in hits : j <= i
    IN  firstSeen[last].num

\* C2 amended: a row carrying the exact label of an earlier first-seen row
\* is parsed again as first-seen: its records end in " + TB" and carry the
\* channels value of the first occurrence.  The row treated as a repeat
\* (records ending in " + TB_ch", channels read from the registry) is the one
\* whose label equals the base name captured from an earlier label; its
\* channels value is that of the most recent such label.
C2_SameLabelParsedAgain ==
    /\ (BundleRowDone /\ SameLabelEarlier) =>
          /\ ~is_tariff
          /\ CurLabel \notin DOMAIN cur.registry
          /\ Len(names) = cur.base + Len(CurHeads) - 1
          /\ \A j \in CurRecords :
                /\ EndsWith(names[j], SUFFIX_TB)
                /\ \A i \in 1..Len(firstSeen) :
                      firstSeen[i].label = CurLabel =>
                          channels[j] = <<"int", firstSeen[i].num>>
    /\ (BundleRowDone /\ ~HasGroup(CurLabel)) =>
          /\ is_tariff
          /\ \E i \in 1..Len(firstSeen) :
                TextBeforeParen(firstSeen[i].label) = CurLabel
          /\ Len(names) = cur.base + Len(CurHeads) - 1
          /\ \A j \in CurRecords :
                /\ EndsWith(names[j], SUFFIX_TB_CH)
                /\ channels[j] = <<"int", LastCountFor(CurLabel)>>

\* a second table has repeated the label of a first-seen bundle and its row
\* has yielded its records
C2_Witness ==
    /\ BundleRowDone
    /\ SameLabelEarlier
    /\ CurLabel = tdK
    /\ Len(names) >= cur.base + 2

(***************************************************************************)
(* C3                                                                      *)
(***************************************************************************)
\* C3: a Schema B data row with a first-seen, well-formed label under a
\* header with k speed columns appends exactly k records, in column order;
\* record i has the first digit run of header cell i as speed, the integer
\* of data cell i as payment, the leading digit run of the label's
\* parentheses as channels, and label + CONNECTOR + speed + " + TB" as name.
C3_BundleRowRecords ==
    (BundleRowDone /\ CurLabel \notin DOMAIN cur.registry) =>
        LET k == Len(CurHeads) - 1
        IN  /\ Len(names) = cur.base + k
            /\ SameLengths
            /\ \A i \in 1..k :
                  LET speed == DigitRun(CurHeads[i + 1])
                  IN  Record(cur.base + i) =
                          << CurLabel \o CONNECTOR \o IntToText(speed) \o SUFFIX_TB,
                             <<"int", ParenDigits(CurLabel)>>,
                             speed,
                             IntOf(CurCells[i + 1]) >>
            /\ (CurHeads = HeadB2.th /\ CurCells = RowK.td) =>
                  /\ Record(cur.base + 1) =
                        << <<"K", " ", "(", "1", "2", "0", " ", "k", ")", " ", "+", " ", "R", "i", "a", "l", "K", "o", "m", " ", "I", "n", "t", "e", "r", "n", "e", "t", " ", "5", "0", " ", "+", " ", "T", "B">>,
                           <<"int", 120>>, 50, 600 >>
                  /\ Record(cur.base + 2) =
                        << <<"K", " ", "(", "1", "2", "0", " ", "k", ")", " ", "+", " ", "R", "i", "a", "l", "K", "o", "m", " ", "I", "n", "t", "e", "r", "n", "e", "t", " ", "1", "0", "0", " ", "+", " ", "T", "B">>,
                           <<"int", 120>>, 100, 800 >>

\* the row "K (120 k)" | 600 | 800 under two speed columns has completed as
\* a first-seen bundle
C3_Witness ==
    /\ BundleRowDone
    /\ CurLabel \notin DOMAIN cur.registry
    /\ CurHeads = HeadB2.th
    /\ CurCells = RowK.td
    /\ Len(names) = cur.base + 2

(***************************************************************************)
(* C4                                                                      *)
(***************************************************************************)
\* C4: a Schema A data row appends exactly one record: the stripped text of
\* cell 0, null channels, the integer of the first blank-delimited token of
\* cell 1, and the first digit run of cell 3 divided by 1000 truncating
\* (1500 gives 1, a run below 1000 gives 0); the registry is left as it was.
C4_TariffRowRecord ==
    TariffRowDone =>
        LET run == DigitRun(CurCells[4])
            last == cur.base + 1
        IN  /\ Len(names) = last
            /\ SameLengths
            /\ names[last] = Strip(CurCells[1])
            /\ channels[last] = <<"str", NULL>>
            /\ payments[last] = IntOf(Split(CurCells[2])[1])
            /\ speeds[last] = run \div 1000
            /\ run = 1500 => speeds[last] = 1
            /\ run < 1000 => speeds[last] = 0
            /\ count_tariff_channel = cur.registry
            /\ CurCells = RowTurbo.td =>
                  Record(last) = << <<"T", "u", "r", "b", "o">>, <<"str", NULL>>, 1, 900 >>

\* the Schema A row whose cell 3 holds the digit run 1500 has completed
C4_Witness ==
    /\ TariffRowDone
    /\ DigitRun(CurCells[4]) = 1500
    /\ speeds[Len(speeds)] = 1
    /\ cur.registry # <<>>

(***************************************************************************)
(* C5                                                                      *)
(***************************************************************************)
\* C5 as stated: the Schema A row "Start" | "350 rub" | "-" | "do 30 M"
\* yields {Start, null, 30, 350}; a cell 3 with the digit run N yields N.
C5_SpeedIsDigitRun ==
    /\ (TariffRowDone /\ CurCells = RowStart.td) =>
          Record(cur.base + 1) = <<tdStart, <<"str", NULL>>, 30, 350>>
    /\ TariffRowDone => speeds[cur.base + 1] = DigitRun(CurCells[4])

\* C5 amended: that row yields {Start, null, 0, 350}; a cell 3 with the
\* digit run N yields the whole thousands of N.
C5_SpeedIsThousandsOfDigitRun ==
    /\ (TariffRowDone /\ CurCells = RowStart.td) =>
          Record(cur.base + 1) = <<tdStart, <<"str", NULL>>, 0, 350>>
    /\ TariffRowDone =>
          LET v == speeds[cur.base + 1]
              N == DigitRun(CurCells[4])
          IN  v * 1000 <= N /\ N < (v + 1) * 1000

\* the row "Start" | "350 rub" | "-" | "do 30 M" has completed
C5_Witness ==
    /\ TariffRowDone
    /\ CurCells = RowStart.td
    /\ Len(speeds) = cur.base + 1
    /\ Len(payments) = cur.base + 1

(***************************************************************************)
(* C6                                                                      *)
(***************************************************************************)
UnitedHeads(t) == Join(Tables[t][1].th)

\* C6: a table is Schema A when its joined header contains TARIF, else
\* Schema B when it contains INTERNET, else it is skipped; a skipped table
\* (one without rows included) never raises and none of its rows is visited.
C6_ClassifyOrSkip ==
    /\ phase = "rowA" => Contains(UnitedHeads(ti), TARIF)
    /\ phase \in {"rowB", "colB"} =>
          /\ ~Contains(UnitedHeads(ti), TARIF)
          /\ Contains(UnitedHeads(ti), INTERNET)
    /\ cur.t # 0 =>
          \/ Contains(UnitedHeads(cur.t), TARIF)
          \/ Contains(UnitedHeads(cur.t), INTERNET)
    /\ phase = "raised" =>
          /\ Tables[ti] # <<>>
          /\ \/ Contains(UnitedHeads(ti), TARIF)
             \/ Contains(UnitedHeads(ti), INTERNET)

(***************************************************************************)
(* C7                                                                      *)
(***************************************************************************)
ClassOfTable(t) == IF Tables[t] = <<>> THEN "skip" ELSE Classify(Tables[t][1].th)

\* a Schema A row with a speed cell without digits or a payment cell whose
\* first token is no integer
BadTariffRow(td) ==
    \/ Len(td) >= 4 /\ SearchDigits(td[4]) = <<>>
    \/ /\ Len(td) >= 2
       /\ LET tokens == Split(td[2])
          IN  tokens = <<>> \/ ~IntOk(tokens[1])

\* the labels of the Schema B rows that stand before row r of table t
EarlierLabels(t, r) ==
    {Strip(Tables[p[1]][p[2]].td[1]) :
        p \in {q \in (1..t) \X (2..20) :
                 /\ q[2] <= Len(Tables[q[1]])
                 /\ q[1] < t \/ q[2] < r
                 /\ ClassOfTable(q[1]) = "B"
                 /\ Len(Tables[q[1]][q[2]].td) >= 1}}

\* a Schema B row under a speed header without digits, or with a payment
\* cell that is no integer, or with a label that has no parenthesized digit
\* group and is the base name of no label before it
BadBundleRow(t, r) ==
    LET heads == Tables[t][1].th
        td == Tables[t][r].td
    IN  \/ \E i \in 2..Len(heads) : SearchDigits(heads[i]) = <<>>
        \/ \E i \in 2..Len(heads) : Len(td) >= i /\ ~IntOk(td[i])
        \/ /\ Len(td) >= 1
           /\ ~HasGroup(Strip(td[1]))
           /\ \A l \in EarlierLabels(t, r) :
                 ~(HasGroup(l) /\ TextBeforeParen(l) = Strip(td[1]))

\* some data row of a classified table of the page holds a malformed cell
MalformedPage ==
    \E t \in 1..Len(data) : \E r \in 2..Len(Tables[t]) :
        \/ ClassOfTable(t) = "A" /\ BadTariffRow(Tables[t][r].td)
        \/ ClassOfTable(t) = "B" /\ BadBundleRow(t, r)

\* some cell of a classified table is malformed, whether or not a data row
\* makes the interpreter read it: a speed cell, a speed header, a payment
\* cell or a bundle label as such
MalformedCellAnywhere ==
    \E t \in 1..Len(data) :
        \/ /\ ClassOfTable(t) = "A"
           /\ \E r \in 2..Len(Tables[t]) : BadTariffRow(Tables[t][r].td)
        \/ /\ ClassOfTable(t) = "B"
           /\ LET heads == Tables[t][1].th
              IN  \/ \E i \in 2..Len(heads) : SearchDigits(heads[i]) = <<>>
                  \/ \E r \in 2..Len(Tables[t]) :
                        LET td == Tables[t][r].td
                        IN  \/ Len(td) >= 1 /\ ~HasGroup(Strip(td[1]))
                            \/ \E i \in 2..Len(heads) :
                                  Len(td) >= i /\ ~IntOk(td[i])

\* C7 as stated: any malformed cell of any classified table aborts the call,
\* and then nothing is returned and no file is written.
C7_AnyMalformedCellAborts ==
    (pc \in {"exit", "crashed"} /\ status = 200 /\ MalformedCellAnywhere) =>
        /\ pc = "crashed"
        /\ results = <<>>
        /\ file = <<>>

\* C7 amended: a malformed cell that a data row makes the interpreter read
\* (the row's speed cell or payment cell, a speed header above a data row, a
\* label that is no registry key and has no parenthesized digit group) aborts
\* the call with an error; whenever the call aborts no record set is
\* returned, no record of any table is emitted and save_data writes no file.
C7_AbortWritesNothing ==
    /\ phase = "raised" =>
          /\ raised.type # "none"
          /\ results = <<>>
          /\ file = <<>>
    /\ pc = "crashed" => phase = "raised"
    /\ (pc \in {"exit", "crashed"} /\ status = 200 /\ MalformedPage) =>
          /\ pc = "crashed"
          /\ phase = "raised"
          /\ results = <<>>
          /\ file = <<>>

\* main has ended on the payment "utochnit" of a second table, after the
\* first table had been processed whole
C7_Witness ==
    /\ pc = "crashed"
    /\ raised = [type |-> "ValueError", line |-> 204]
    /\ ti = 2
    /\ cur.base >= 1
    /\ Len(names) > Len(payments)
    /\ MalformedPage

(***************************************************************************)
(* C8                                                                      *)
(***************************************************************************)
\* C8: a spreadsheet is written only after load_data returned 200; on any
\* other status main prints the status and ends, having fetched once and
\* having called neither process_data nor save_data, and writes nothing.
C8_WriteOnlyAfter200 ==
    /\ fetches <= 1
    /\ file # <<>> => status = 200 /\ fetches = 1
    /\ status # 200 =>
          /\ phase = "idle"
          /\ calls = 0
          /\ results = <<>>
          /\ file = <<>>
          /\ pc \in {"main", "loaded", "exit"}
    /\ (pc = "exit" /\ status # 200) =>
          /\ printed = <<status>>
          /\ fetches = 1
    /\ (pc = "exit" /\ status = 200) => printed = <<>>

\* main has ended after the fetch answered 503
C8_Witness ==
    /\ pc = "exit"
    /\ status = 503
    /\ printed = <<503>>
    /\ fetches = 1

(***************************************************************************)
(* C9                                                                      *)
(***************************************************************************)
\* C9: every DataRialcom.process_data call starts with empty lists and an
\* empty registry, so a second call on the same instance returns what the
\* first returned.
C9_FreshEveryCall ==
    /\ (phase = "table" /\ ti = 1) =>
          /\ names = <<>> /\ channels = <<>>
          /\ speeds = <<>> /\ payments = <<>>
          /\ count_tariff_channel = <<>>
    /\ (phase = "returned" /\ calls = 2) =>
          results[Len(results)] = results[Len(results) - 1]

(***************************************************************************)
(* C10                                                                     *)
(***************************************************************************)
\* C10: every registry key is the base name of a label parsed earlier, with
\* the channel count of such a label; a Schema B row is a repeat (records
\* ending in " + TB_ch") exactly when its whole stripped label is a key of
\* the registry as the row finds it; a row whose label is no key and has no
\* parenthesized digit group aborts the call.
C10_RegistryKeyedByBaseName ==
    /\ \A k \in DOMAIN count_tariff_channel :
          \E i \in 1..Len(firstSeen) :
              /\ HasGroup(firstSeen[i].label)
              /\ TextBeforeParen(firstSeen[i].label) = k
              /\ ParenDigits(firstSeen[i].label) = count_tariff_channel[k]
    /\ (CurKind = "B" /\ Len(CurCells) >= 1) =>
          LET key == CurLabel \in DOMAIN cur.registry
          IN  /\ (key \/ HasGroup(CurLabel)) =>
                    /\ tariff = CurLabel
                    /\ is_tariff = key
                    /\ ~(phase = "raised" /\ raised.line = 178)
                    /\ \A j \in CurRecords :
                          EndsWith(names[j],
                                   IF key THEN SUFFIX_TB_CH ELSE SUFFIX_TB)
              /\ (~key /\ ~HasGroup(CurLabel)) =>
                    /\ phase = "raised"
                    /\ raised = [type |-> "AttributeError", line |-> 178]
                    /\ Len(names) = cur.base

\* the row labelled "K" has completed as a repeat of the bundle "K (120 k)"
\* or "K  (99)" parsed before it
C10_Witness ==
    /\ BundleRowDone
    /\ CurLabel = tdKbare
    /\ is_tariff
    /\ Len(names) > cur.base
    /\ <<"K">> \in DOMAIN count_tariff_channel

====
